---- MODULE Spec2Model ----
(***************************************************************************)
(* Model of the metric instrument registry of go-metrics (Metrics.go, the  *)
(* RWMutex version, lines 164-547): seven key->instrument pools, one       *)
(* sync.RWMutex per instrument kind, and the double-checked get-or-create  *)
(* of Count, IncreaseCounter, SetGauge, CountLabels, AddHistogram,         *)
(* AddHistogramVec and AddSummaryVec, run by concurrent goroutines.        *)
(* Keys and metric names are computed by concatenation, as                 *)
(* fmt.Sprintf("%s/%s") and name + "_summary" compute them.                *)
(***************************************************************************)
EXTENDS Integers, Sequences, FiniteSets, TLC

\* ---------------------------------------------------------------- bounds
NumThreads == 2
MaxCalls == 3

Threads == 1..NumThreads

\* ---------------------------------------------------------------- strings
Sep == "/"
Underscore == "_"
SummarySuffix == "_summary"
Namespace == "ns"

\* a key that leaves the subsystem out
KeyNameOnly(subsystem, name) == name

\* a key that joins the two strings without a separator
KeyNoSeparator(subsystem, name) == subsystem \o name

\* key := fmt.Sprintf("%s/%s", subsystem, name)
Key(subsystem, name) == subsystem \o Sep \o name

\* prometheus.BuildFQName: the non-empty parts joined by "_"; "" for an empty name
BuildFQName(namespace, subsystem, name) ==
    IF name = "" THEN ""
    ELSE IF namespace # "" /\ subsystem # ""
         THEN namespace \o Underscore \o subsystem \o Underscore \o name
    ELSE IF namespace # "" THEN namespace \o Underscore \o name
    ELSE IF subsystem # "" THEN subsystem \o Underscore \o name
    ELSE name

\* a metric name the backend accepts: non-empty and free of "/"
IsValidMetricName(fq) == fq # "" /\ \A i \in 1..Len(fq) : SubSeq(fq, i, i) # Sep

\* ---------------------------------------------------------------- maps
Nil == [kind |-> "nil"]
EmptyMap == [k \in {} |-> Nil]
Has(m, k) == k \in DOMAIN m
Get(m, k) == IF k \in DOMAIN m THEN m[k] ELSE Nil
Put(m, k, v) == [x \in (DOMAIN m) \cup {k} |-> IF x = k THEN v ELSE m[x]]
Bump(m, k, n) == Put(m, k, (IF k \in DOMAIN m THEN m[k] ELSE 0) + n)

\* ---------------------------------------------------------------- inputs
Subsystems == {"a"}
Names == {"x"}
Increments == {2}
GaugeValues == {5, 6}
LabelValues == {<<"v1">>, <<"v2">>}
\* prometheus.DefBuckets, in thousandths
DefBuckets == <<5, 10, 25, 50, 100, 250, 500, 1000, 2500, 5000, 10000>>
\* the buckets {10, 20, 30.5} of the tests, in thousandths
CustomBuckets == <<10000, 20000, 30500>>
\* DefaultObjectives(): quantile -> error tolerance, both in ten-thousandths
DefaultObjectives ==
    (5000 :> 500) @@ (7500 :> 250) @@ (9000 :> 100) @@ (9500 :> 50) @@ (9900 :> 10) @@ (9990 :> 1)
\* label names with bucket boundaries of the two histogram-vector requests
VecOptions == {<<(<<"l1">>), DefBuckets>>, <<(<<"l1", "l2">>), CustomBuckets>>}

Request(op, s, n, h, l, v, i, g, b, o) ==
    [op |-> op, subsystem |-> s, name |-> n, help |-> h, labels |-> l,
     values |-> v, increment |-> i, value |-> g, buckets |-> b, objectives |-> o]

CountRequests ==
    {Request("Count", s, n, "h1", <<>>, <<>>, 1, 0, <<>>, <<>>) :
        s \in Subsystems, n \in Names}
IncreaseCounterRequests ==
    {Request("IncreaseCounter", s, n, "h2", <<>>, <<>>, i, 0, <<>>, <<>>) :
        s \in Subsystems, n \in Names, i \in Increments}
SetGaugeRequests ==
    {Request("SetGauge", s, n, "h1", <<>>, <<>>, 0, g, <<>>, <<>>) :
        s \in Subsystems, n \in Names, g \in GaugeValues}
CountLabelsRequests ==
    {Request("CountLabels", s, n, "h1", <<"l1">>, v, 1, 0, <<>>, <<>>) :
        s \in Subsystems, n \in Names, v \in LabelValues}
AddHistogramRequests ==
    {Request("AddHistogram", s, n, "h1", <<>>, <<>>, 0, 0, DefBuckets, DefaultObjectives) :
        s \in Subsystems, n \in Names}
AddHistogramVecRequests ==
    {Request("AddHistogramVec", s, n, "h1", o[1], <<"v1">>, 0, 0, o[2], <<>>) :
        s \in Subsystems, n \in Names, o \in VecOptions}
AddSummaryVecRequests ==
    {Request("AddSummaryVec", s, n, "h1", <<"l1">>, <<"v1">>, 0, 0, <<>>, DefaultObjectives) :
        s \in Subsystems, n \in Names}

\* the arguments of a goroutine that has made no call yet
NoRequest == Request("none", "", "", "", <<>>, <<>>, 0, 0, <<>>, <<>>)

Requests ==
    CountRequests \cup IncreaseCounterRequests \cup SetGaugeRequests
    \cup CountLabelsRequests \cup AddHistogramRequests
    \cup AddHistogramVecRequests \cup AddSummaryVecRequests

\* ---------------------------------------------------------------- state
VARIABLES
    pools,       \* Metrics.Counters, CounterVecs, Summaries, SummaryVecs, Histograms, HistogramVecs, Gauges
    mutex,       \* the six *sync.RWMutex: writer (0: none) and set of readers
    registered,  \* fully-qualified names held by prometheus.DefaultRegisterer
    meta,        \* constructed instrument -> the options it was constructed with
    val,         \* constructed instrument -> its value (counter, gauge), its observations (summary,
                 \* histogram) or its per-label-tuple counts (vector)
    pc,          \* goroutine -> position in its call
    req,         \* goroutine -> arguments of its call
    loc,         \* goroutine -> local variables (counter/gauge/vec/sum, exists, hist)
    handles,     \* the handles returned by the Add* calls so far
    regCalls,    \* history: <<pool, key>> -> number of Register/MustRegister calls made
    warnings,    \* history: <<pool, key>> -> number of Logger.Warn calls made
    issued,      \* history: <<pool, key, label values>> -> sum of the increments of the calls started,
                 \* and <<pool, key, <<method>>>> -> number of calls of a recording method of a handle
    passed,      \* history: <<pool, subsystem, name>> of the calls started
    ncalls,      \* number of calls started
    other,       \* a second *Metrics of the process (Nil: none): its namespace, counters and warnings
    old          \* a run of the earlier Metrics, with one sync.Mutex per pool, fed the same Count calls

vars == <<pools, mutex, registered, meta, val, pc, req, loc, handles,
          regCalls, warnings, issued, passed, ncalls, other, old>>

PoolNames == {"Counters", "CounterVecs", "Summaries", "SummaryVecs",
              "Histograms", "HistogramVecs", "Gauges"}
MutexNames == {"countMutex", "countVecMutex", "histMutex", "histVecMutex",
               "summaryVecMutex", "gaugeMutex"}

\* the pool an operation looks its key up in
PoolOf(op) ==
    CASE op = "Count" -> "Counters"
      [] op = "IncreaseCounter" -> "Counters"
      [] op = "SetGauge" -> "Gauges"
      [] op = "CountLabels" -> "CounterVecs"
      [] op = "AddHistogram" -> "Summaries"
      [] op = "AddHistogramVec" -> "HistogramVecs"
      [] op = "AddSummaryVec" -> "SummaryVecs"

\* one mutex for every operation
MutexOfSingle(op) == "countMutex"

\* the mutex an operation takes
MutexOf(op) ==
    CASE op = "Count" -> "countMutex"
      [] op = "IncreaseCounter" -> "countMutex"
      [] op = "SetGauge" -> "gaugeMutex"
      [] op = "CountLabels" -> "countVecMutex"
      [] op = "AddHistogram" -> "histMutex"
      [] op = "AddHistogramVec" -> "histVecMutex"
      [] op = "AddSummaryVec" -> "summaryVecMutex"

NoLocals == [inst |-> Nil, exists |-> FALSE, hist |-> Nil]

\* NewMetrics: empty pools, unlocked mutexes
NewMetrics ==
    /\ pools = [p \in PoolNames |-> EmptyMap]
    /\ mutex = [m \in MutexNames |-> [w |-> 0, r |-> {}]]

\* NewMetrics of the earlier version: an empty Counters map and an unlocked
\* countMutex; with it the backend's names, the goroutines of the run and the
\* history of its calls
OldNewMetrics ==
    [Counters |-> EmptyMap, countMutex |-> 0, registered |-> {},
     pc |-> [t \in Threads |-> "idle"], req |-> [t \in Threads |-> NoRequest],
     regCalls |-> EmptyMap, warnings |-> EmptyMap, issued |-> EmptyMap]

Init ==
    /\ NewMetrics
    /\ registered = {}
    /\ meta = EmptyMap
    /\ val = EmptyMap
    /\ pc = [t \in Threads |-> "idle"]
    /\ req = [t \in Threads |-> NoRequest]
    /\ loc = [t \in Threads |-> NoLocals]
    /\ handles = {}
    /\ regCalls = EmptyMap
    /\ warnings = EmptyMap
    /\ issued = EmptyMap
    /\ passed = {}
    /\ ncalls = 0
    /\ other = Nil
    /\ old = OldNewMetrics

KeyOf(t) == Key(req[t].subsystem, req[t].name)

\* ---------------------------------------------------------------- backend
\* prometheus.Register: rejects an invalid descriptor and a fully-qualified
\* name that is already registered (whatever the kind of its collector)
RegisterOk(fq) == IsValidMetricName(fq) /\ fq \notin registered

FQName(t) == BuildFQName(Namespace, req[t].subsystem, req[t].name)
SummaryFQName(t) == BuildFQName(Namespace, req[t].subsystem, req[t].name \o SummarySuffix)

\* a newly constructed instrument object of a pool: the n-th one constructed for
\* its key, each construction being followed by one registration call
NewRef(pool, key) ==
    [pool |-> pool, key |-> key,
     n |-> (IF <<pool, key>> \in DOMAIN regCalls THEN regCalls[<<pool, key>>] ELSE 0) + 1]
\* the options an instrument is constructed with
Opts(fq, t) ==
    [fq |-> fq, help |-> req[t].help, labels |-> req[t].labels,
     buckets |-> req[t].buckets, objectives |-> req[t].objectives]

SetPc(t, l) == pc' = [pc EXCEPT ![t] = l]

\* ---------------------------------------------------------------- calls
\* a call that starts by taking the exclusive lock, as with a plain sync.Mutex
BeginExclusive(t, r) ==
    /\ pc[t] = "idle"
    /\ \A u \in Threads : u < t => pc[u] # "idle"
    /\ ncalls < MaxCalls
    /\ mutex[MutexOf(r.op)].w = 0
    /\ mutex[MutexOf(r.op)].r = {}
    /\ mutex' = [mutex EXCEPT ![MutexOf(r.op)].w = t]
    /\ req' = [req EXCEPT ![t] = r]
    /\ loc' = [loc EXCEPT ![t] = NoLocals]
    /\ SetPc(t, "lookup")
    /\ ncalls' = ncalls + 1
    /\ issued' = IF r.op \in {"Count", "IncreaseCounter", "CountLabels"}
                 THEN Bump(issued, <<PoolOf(r.op), Key(r.subsystem, r.name), r.values>>, r.increment)
                 ELSE issued
    /\ passed' = passed \cup {<<PoolOf(r.op), r.subsystem, r.name>>}
    /\ UNCHANGED <<pools, registered, meta, val, handles, regCalls, warnings, other, old>>

\* a goroutine (the lowest free one) calls one of the seven operations with
\* arguments r and takes the read lock: m.<kind>Mutex.RLock() waits while a
\* writer holds the mutex
Begin(t, r) ==
    /\ pc[t] = "idle"
    /\ \A u \in Threads : u < t => pc[u] # "idle"
    /\ ncalls < MaxCalls
    /\ mutex[MutexOf(r.op)].w = 0
    /\ mutex' = [mutex EXCEPT ![MutexOf(r.op)].r = @ \cup {t}]
    /\ req' = [req EXCEPT ![t] = r]
    /\ loc' = [loc EXCEPT ![t] = NoLocals]
    /\ SetPc(t, "lookup")
    /\ ncalls' = ncalls + 1
    /\ issued' = IF r.op \in {"Count", "IncreaseCounter", "CountLabels"}
                 THEN Bump(issued, <<PoolOf(r.op), Key(r.subsystem, r.name), r.values>>, r.increment)
                 ELSE issued
    /\ passed' = passed \cup {<<PoolOf(r.op), r.subsystem, r.name>>}
    /\ UNCHANGED <<pools, registered, meta, val, handles, regCalls, warnings, other, old>>

Call(t) == \E r \in Requests : Begin(t, r)

\* a lookup that goes on to the write lock whether or not it found the key
LookupMiss(t) ==
    /\ pc[t] = "lookup"
    /\ req[t].op # "AddHistogram"
    /\ loc' = [loc EXCEPT ![t] = [inst |-> Get(pools[PoolOf(req[t].op)], KeyOf(t)),
                                  exists |-> Has(pools[PoolOf(req[t].op)], KeyOf(t)),
                                  hist |-> Nil]]
    /\ mutex' = [mutex EXCEPT ![MutexOf(req[t].op)].r = @ \ {t}]
    /\ SetPc(t, "lock")
    /\ UNCHANGED <<pools, registered, meta, val, req, handles,
                   regCalls, warnings, issued, passed, ncalls, other, old>>

\* counter, exists := m.Counters[key]; m.countMutex.RUnlock(); if !exists { ...
Lookup(t) ==
    /\ pc[t] = "lookup"
    /\ req[t].op # "AddHistogram"
    /\ loc' = [loc EXCEPT ![t] = [inst |-> Get(pools[PoolOf(req[t].op)], KeyOf(t)),
                                  exists |-> Has(pools[PoolOf(req[t].op)], KeyOf(t)),
                                  hist |-> Nil]]
    /\ mutex' = [mutex EXCEPT ![MutexOf(req[t].op)].r = @ \ {t}]
    /\ SetPc(t, IF Has(pools[PoolOf(req[t].op)], KeyOf(t)) THEN "record" ELSE "lock")
    /\ UNCHANGED <<pools, registered, meta, val, req, handles,
                   regCalls, warnings, issued, passed, ncalls, other, old>>

\* sum, exists := m.Summaries[key]; hist := m.Histograms[key]; m.histMutex.RUnlock()
addHistogramLookup(t) ==
    /\ pc[t] = "lookup"
    /\ req[t].op = "AddHistogram"
    /\ loc' = [loc EXCEPT ![t] = [inst |-> Get(pools.Summaries, KeyOf(t)),
                                  exists |-> Has(pools.Summaries, KeyOf(t)),
                                  hist |-> Get(pools.Histograms, KeyOf(t))]]
    /\ mutex' = [mutex EXCEPT !.histMutex.r = @ \ {t}]
    /\ SetPc(t, IF Has(pools.Summaries, KeyOf(t)) THEN "record" ELSE "lock")
    /\ UNCHANGED <<pools, registered, meta, val, req, handles,
                   regCalls, warnings, issued, passed, ncalls, other, old>>

\* a write path that takes the shared lock: RLock() where Lock() is meant
LockShared(t) ==
    /\ pc[t] = "lock"
    /\ mutex[MutexOf(req[t].op)].w = 0
    /\ mutex' = [mutex EXCEPT ![MutexOf(req[t].op)].r = @ \cup {t}]
    /\ SetPc(t, "create")
    /\ UNCHANGED <<pools, registered, meta, val, req, loc, handles,
                   regCalls, warnings, issued, passed, ncalls, other, old>>

\* m.<kind>Mutex.Lock(): waits while a writer or any reader holds the mutex
Lock(t) ==
    /\ pc[t] = "lock"
    /\ mutex[MutexOf(req[t].op)].w = 0
    /\ mutex[MutexOf(req[t].op)].r = {}
    /\ mutex' = [mutex EXCEPT ![MutexOf(req[t].op)].w = t]
    /\ SetPc(t, "create")
    /\ UNCHANGED <<pools, registered, meta, val, req, loc, handles,
                   regCalls, warnings, issued, passed, ncalls, other, old>>

\* an Unlock put off to the return of the call (defer), so that the last
\* statement runs with the write lock held
UnlockDeferred(t) ==
    /\ pc[t] = "unlock"
    /\ SetPc(t, "record")
    /\ UNCHANGED <<pools, mutex, registered, meta, val, req, loc, handles,
                   regCalls, warnings, issued, passed, ncalls, other, old>>

\* m.<kind>Mutex.Unlock()
Unlock(t) ==
    /\ pc[t] = "unlock"
    /\ mutex' = [mutex EXCEPT ![MutexOf(req[t].op)].w = 0]
    /\ SetPc(t, "record")
    /\ UNCHANGED <<pools, registered, meta, val, req, loc, handles,
                   regCalls, warnings, issued, passed, ncalls, other, old>>

\* a write-locked section without the re-check
RecheckSkipped(pool, key) == FALSE

\* if counter, exists = m.Counters[key]; !exists : the re-check under the write lock
Recheck(pool, key) == Has(pools[pool], key)

\* a write-locked section that keeps the new instrument out of the pool when
\* Register fails
ScalarCreateDropOnError(t, pool, zero) ==
    /\ pc[t] = "create"
    /\ IF Recheck(pool, KeyOf(t))
       THEN /\ loc' = [loc EXCEPT ![t].inst = pools[pool][KeyOf(t)], ![t].exists = TRUE]
            /\ UNCHANGED <<pools, registered, meta, val, regCalls, warnings>>
       ELSE /\ loc' = [loc EXCEPT ![t].inst = NewRef(pool, KeyOf(t))]
            /\ meta' = Put(meta, NewRef(pool, KeyOf(t)), Opts(FQName(t), t))
            /\ val' = Put(val, NewRef(pool, KeyOf(t)), zero)
            /\ pools' = IF RegisterOk(FQName(t))
                        THEN [pools EXCEPT ![pool] = Put(@, KeyOf(t), NewRef(pool, KeyOf(t)))]
                        ELSE pools
            /\ regCalls' = Bump(regCalls, <<pool, KeyOf(t)>>, 1)
            /\ IF RegisterOk(FQName(t))
               THEN /\ registered' = registered \cup {FQName(t)}
                    /\ UNCHANGED warnings
               ELSE /\ warnings' = Bump(warnings, <<pool, KeyOf(t)>>, 1)
                    /\ UNCHANGED registered
    /\ SetPc(t, "unlock")
    /\ UNCHANGED <<mutex, req, handles, issued, passed, ncalls, other, old>>

\* a write-locked section that ignores the error Register returns
ScalarCreateSilent(t, pool, zero) ==
    /\ pc[t] = "create"
    /\ IF Recheck(pool, KeyOf(t))
       THEN /\ loc' = [loc EXCEPT ![t].inst = pools[pool][KeyOf(t)], ![t].exists = TRUE]
            /\ UNCHANGED <<pools, registered, meta, val, regCalls>>
       ELSE /\ loc' = [loc EXCEPT ![t].inst = NewRef(pool, KeyOf(t))]
            /\ meta' = Put(meta, NewRef(pool, KeyOf(t)), Opts(FQName(t), t))
            /\ val' = Put(val, NewRef(pool, KeyOf(t)), zero)
            /\ pools' = [pools EXCEPT ![pool] = Put(@, KeyOf(t), NewRef(pool, KeyOf(t)))]
            /\ regCalls' = Bump(regCalls, <<pool, KeyOf(t)>>, 1)
            /\ registered' = IF RegisterOk(FQName(t))
                              THEN registered \cup {FQName(t)}
                              ELSE registered
    /\ SetPc(t, "unlock")
    /\ UNCHANGED <<mutex, req, handles, warnings, issued, passed, ncalls, other, old>>

\* the write-locked section of Count, SetGauge, CountLabels and IncreaseCounter:
\* re-check; if still absent construct, insert, Register, and Warn on an error
ScalarCreate(t, pool, zero) ==
    /\ pc[t] = "create"
    /\ IF Recheck(pool, KeyOf(t))
       THEN /\ loc' = [loc EXCEPT ![t].inst = pools[pool][KeyOf(t)], ![t].exists = TRUE]
            /\ UNCHANGED <<pools, registered, meta, val, regCalls, warnings>>
       ELSE /\ loc' = [loc EXCEPT ![t].inst = NewRef(pool, KeyOf(t))]
            /\ meta' = Put(meta, NewRef(pool, KeyOf(t)), Opts(FQName(t), t))
            /\ val' = Put(val, NewRef(pool, KeyOf(t)), zero)
            /\ pools' = [pools EXCEPT ![pool] = Put(@, KeyOf(t), NewRef(pool, KeyOf(t)))]
            /\ regCalls' = Bump(regCalls, <<pool, KeyOf(t)>>, 1)
            /\ IF RegisterOk(FQName(t))
               THEN /\ registered' = registered \cup {FQName(t)}
                    /\ UNCHANGED warnings
               ELSE /\ warnings' = Bump(warnings, <<pool, KeyOf(t)>>, 1)
                    /\ UNCHANGED registered
    /\ SetPc(t, "unlock")
    /\ UNCHANGED <<mutex, req, handles, issued, passed, ncalls, other, old>>

CountCreate(t) ==
    pc[t] = "create" /\ req[t].op = "Count" /\ ScalarCreate(t, "Counters", 0)
IncreaseCounterCreate(t) ==
    pc[t] = "create" /\ req[t].op = "IncreaseCounter" /\ ScalarCreate(t, "Counters", 0)
SetGaugeCreate(t) ==
    pc[t] = "create" /\ req[t].op = "SetGauge" /\ ScalarCreate(t, "Gauges", 0)

\* addHistogramWithBuckets, first half of the write-locked section: re-check the
\* summary; if absent NewSummary, MustRegister (panics on an error), insert
addHistogramCreateSummary(t) ==
    /\ pc[t] = "create"
    /\ req[t].op = "AddHistogram"
    /\ IF Recheck("Summaries", KeyOf(t))
       THEN /\ loc' = [loc EXCEPT ![t].inst = pools.Summaries[KeyOf(t)], ![t].exists = TRUE]
            /\ SetPc(t, "unlock")
            /\ UNCHANGED <<pools, registered, meta, val, regCalls>>
       ELSE /\ regCalls' = Bump(regCalls, <<"Summaries", KeyOf(t)>>, 1)
            /\ IF RegisterOk(SummaryFQName(t))
               THEN /\ registered' = registered \cup {SummaryFQName(t)}
                    /\ meta' = Put(meta, NewRef("Summaries", KeyOf(t)), Opts(SummaryFQName(t), t))
                    /\ val' = Put(val, NewRef("Summaries", KeyOf(t)), <<>>)
                    /\ pools' = [pools EXCEPT !.Summaries = Put(@, KeyOf(t), NewRef("Summaries", KeyOf(t)))]
                    /\ loc' = [loc EXCEPT ![t].inst = NewRef("Summaries", KeyOf(t))]
                    /\ SetPc(t, "createHist")
               ELSE /\ SetPc(t, "panicked")
                    /\ UNCHANGED <<pools, registered, meta, val, loc>>
    /\ UNCHANGED <<mutex, req, handles, warnings, issued, passed, ncalls, other, old>>

\* second half: NewHistogram, MustRegister (panics on an error), insert
addHistogramCreateHistogram(t) ==
    /\ pc[t] = "createHist"
    /\ regCalls' = Bump(regCalls, <<"Histograms", KeyOf(t)>>, 1)
    /\ IF RegisterOk(FQName(t))
       THEN /\ registered' = registered \cup {FQName(t)}
            /\ meta' = Put(meta, NewRef("Histograms", KeyOf(t)), Opts(FQName(t), t))
            /\ val' = Put(val, NewRef("Histograms", KeyOf(t)), <<>>)
            /\ pools' = [pools EXCEPT !.Histograms = Put(@, KeyOf(t), NewRef("Histograms", KeyOf(t)))]
            /\ loc' = [loc EXCEPT ![t].hist = NewRef("Histograms", KeyOf(t))]
            /\ SetPc(t, "unlock")
       ELSE /\ SetPc(t, "panicked")
            /\ UNCHANGED <<pools, registered, meta, val, loc>>
    /\ UNCHANGED <<mutex, req, handles, warnings, issued, passed, ncalls, other, old>>

\* a write-locked section that inserts the new vector before MustRegister, as
\* Count inserts before Register
VecCreateInsertFirst(t, pool, fq) ==
    /\ pc[t] = "create"
    /\ regCalls' = Bump(regCalls, <<pool, KeyOf(t)>>, 1)
    /\ IF RegisterOk(fq)
       THEN /\ registered' = registered \cup {fq}
            /\ meta' = Put(meta, NewRef(pool, KeyOf(t)), Opts(fq, t))
            /\ val' = Put(val, NewRef(pool, KeyOf(t)), EmptyMap)
            /\ pools' = [pools EXCEPT ![pool] = Put(@, KeyOf(t), NewRef(pool, KeyOf(t)))]
            /\ loc' = [loc EXCEPT ![t].inst = NewRef(pool, KeyOf(t))]
            /\ SetPc(t, "unlock")
       ELSE /\ SetPc(t, "panicked")
            /\ meta' = Put(meta, NewRef(pool, KeyOf(t)), Opts(fq, t))
            /\ val' = Put(val, NewRef(pool, KeyOf(t)), EmptyMap)
            /\ pools' = [pools EXCEPT ![pool] = Put(@, KeyOf(t), NewRef(pool, KeyOf(t)))]
            /\ UNCHANGED <<registered, loc>>
    /\ UNCHANGED <<mutex, req, handles, warnings, issued, passed, ncalls, other, old>>

\* the write-locked section of addHistogramVecWithBuckets and of
\* addSummaryVecWithObjectives: no re-check; construct, MustRegister, insert
VecCreate(t, pool, fq) ==
    /\ pc[t] = "create"
    /\ regCalls' = Bump(regCalls, <<pool, KeyOf(t)>>, 1)
    /\ IF RegisterOk(fq)
       THEN /\ registered' = registered \cup {fq}
            /\ meta' = Put(meta, NewRef(pool, KeyOf(t)), Opts(fq, t))
            /\ val' = Put(val, NewRef(pool, KeyOf(t)), EmptyMap)
            /\ pools' = [pools EXCEPT ![pool] = Put(@, KeyOf(t), NewRef(pool, KeyOf(t)))]
            /\ loc' = [loc EXCEPT ![t].inst = NewRef(pool, KeyOf(t))]
            /\ SetPc(t, "unlock")
       ELSE /\ SetPc(t, "panicked")
            /\ UNCHANGED <<pools, registered, meta, val, loc>>
    /\ UNCHANGED <<mutex, req, handles, warnings, issued, passed, ncalls, other, old>>

\* a CountLabels that registers its vector with MustRegister, as the other
\* vector kinds do
CountLabelsCreateMust(t) ==
    pc[t] = "create" /\ req[t].op = "CountLabels" /\ VecCreate(t, "CounterVecs", FQName(t))

CountLabelsCreate(t) ==
    pc[t] = "create" /\ req[t].op = "CountLabels" /\ ScalarCreate(t, "CounterVecs", EmptyMap)

addHistogramVecCreate(t) ==
    pc[t] = "create" /\ req[t].op = "AddHistogramVec" /\ VecCreate(t, "HistogramVecs", FQName(t))
addSummaryVecCreate(t) ==
    pc[t] = "create" /\ req[t].op = "AddSummaryVec" /\ VecCreate(t, "SummaryVecs", SummaryFQName(t))

\* ---------------------------------------------------------------- recording
\* the last statement of a call, run with no lock held; a method call on a
\* nil instrument panics
Finish(t, newVal, newHandles, panics) ==
    /\ pc[t] = "record"
    /\ IF panics
       THEN /\ SetPc(t, "panicked")
            /\ UNCHANGED <<val, handles, req, loc>>
       ELSE /\ SetPc(t, "idle")
            /\ val' = newVal
            /\ handles' = newHandles
            /\ req' = [req EXCEPT ![t] = NoRequest]
            /\ loc' = [loc EXCEPT ![t] = NoLocals]
    /\ UNCHANGED <<pools, mutex, registered, meta,
                   regCalls, warnings, issued, passed, ncalls, other, old>>

\* counter.Inc()
CountInc(t) ==
    /\ pc[t] = "record"
    /\ req[t].op = "Count"
    /\ Finish(t, [val EXCEPT ![loc[t].inst] = @ + 1], handles, loc[t].inst = Nil)

\* counter.Add(float64(increment))
IncreaseCounterAdd(t) ==
    /\ pc[t] = "record"
    /\ req[t].op = "IncreaseCounter"
    /\ Finish(t, [val EXCEPT ![loc[t].inst] = @ + req[t].increment], handles, loc[t].inst = Nil)

\* a gauge that accumulates the values, as counter.Add does
SetGaugeAdd(t) ==
    /\ pc[t] = "record"
    /\ req[t].op = "SetGauge"
    /\ Finish(t, [val EXCEPT ![loc[t].inst] = @ + req[t].value], handles, loc[t].inst = Nil)

\* gauge.Set(value)
SetGaugeSet(t) ==
    /\ pc[t] = "record"
    /\ req[t].op = "SetGauge"
    /\ Finish(t, [val EXCEPT ![loc[t].inst] = req[t].value], handles, loc[t].inst = Nil)

\* a WithLabelValues that takes any number of values
CountLabelsIncTolerant(t) ==
    /\ pc[t] = "record"
    /\ req[t].op = "CountLabels"
    /\ Finish(t, [val EXCEPT ![loc[t].inst] = Bump(@, req[t].values, 1)], handles,
              loc[t].inst = Nil)

\* an increment of the first label combination, whatever the values passed
CountLabelsIncFirst(t) ==
    /\ pc[t] = "record"
    /\ req[t].op = "CountLabels"
    /\ Finish(t, [val EXCEPT ![loc[t].inst] = Bump(@, <<"v1">>, 1)], handles,
              \/ loc[t].inst = Nil
              \/ Len(req[t].values) # Len(meta[loc[t].inst].labels))

\* counter.WithLabelValues(values...).Inc(): WithLabelValues panics when the
\* number of values is not the number of label names of the vector
CountLabelsInc(t) ==
    /\ pc[t] = "record"
    /\ req[t].op = "CountLabels"
    /\ Finish(t, [val EXCEPT ![loc[t].inst] = Bump(@, req[t].values, 1)], handles,
              \/ loc[t].inst = Nil
              \/ Len(req[t].values) # Len(meta[loc[t].inst].labels))

\* mh := MetricsHistogram{Key: key, hist: hist, sum: sum}; return &mh
addHistogramReturn(t) ==
    /\ pc[t] = "record"
    /\ req[t].op = "AddHistogram"
    /\ Finish(t, val, handles \cup {[Key |-> KeyOf(t), hist |-> loc[t].hist, sum |-> loc[t].inst]}, FALSE)

\* mh := HistogramVec{Key, Labels, LabelValues, histVec: vec}; return &mh
addHistogramVecReturn(t) ==
    /\ pc[t] = "record"
    /\ req[t].op = "AddHistogramVec"
    /\ Finish(t, val, handles \cup {[Key |-> KeyOf(t), Labels |-> req[t].labels,
                       LabelValues |-> req[t].values, histVec |-> loc[t].inst]}, FALSE)

\* mh := SummaryVec{Key, Labels, LabelValues, summaryVec: vec}; return &mh
addSummaryVecReturn(t) ==
    /\ pc[t] = "record"
    /\ req[t].op = "AddSummaryVec"
    /\ Finish(t, val, handles \cup {[Key |-> KeyOf(t), Labels |-> req[t].labels,
                       LabelValues |-> req[t].values, summaryVec |-> loc[t].inst]}, FALSE)

\* ---------------------------------------------------------------- specification
Next ==
    \E t \in Threads :
        \/ Call(t)
        \/ Lookup(t)
        \/ addHistogramLookup(t)
        \/ Lock(t)
        \/ CountCreate(t)
        \/ IncreaseCounterCreate(t)
        \/ SetGaugeCreate(t)
        \/ CountLabelsCreate(t)
        \/ addHistogramCreateSummary(t)
        \/ addHistogramCreateHistogram(t)
        \/ addHistogramVecCreate(t)
        \/ addSummaryVecCreate(t)
        \/ Unlock(t)
        \/ CountInc(t)
        \/ IncreaseCounterAdd(t)
        \/ SetGaugeSet(t)
        \/ CountLabelsInc(t)
        \/ addHistogramReturn(t)
        \/ addHistogramVecReturn(t)
        \/ addSummaryVecReturn(t)

Spec == Init /\ [][Next]_vars

\* ---------------------------------------------------------------- scheduling
\* the next statement of the call goroutine t is in
Proceed(t) ==
    \/ Lookup(t)
    \/ addHistogramLookup(t)
    \/ Lock(t)
    \/ CountCreate(t)
    \/ IncreaseCounterCreate(t)
    \/ SetGaugeCreate(t)
    \/ CountLabelsCreate(t)
    \/ addHistogramCreateSummary(t)
    \/ addHistogramCreateHistogram(t)
    \/ addHistogramVecCreate(t)
    \/ addSummaryVecCreate(t)
    \/ Unlock(t)
    \/ CountInc(t)
    \/ IncreaseCounterAdd(t)
    \/ SetGaugeSet(t)
    \/ CountLabelsInc(t)
    \/ addHistogramReturn(t)
    \/ addHistogramVecReturn(t)
    \/ addSummaryVecReturn(t)

\* the Go scheduler runs every goroutine that can run: a goroutine inside a
\* call whose next statement is not waiting for a mutex eventually executes it
SpecFair == Init /\ [][Next]_vars /\ \A t \in Threads : WF_vars(Proceed(t))

\* ---------------------------------------------------------------- sequential use
\* arguments whose subsystem or name may hold the separator of the key
SeqSubsystems == {"a", "a/b"}
SeqNames == {"x", "b/x"}
SeqRequests ==
    {Request(op, s, n, "h1", <<"l1">>, <<"v1">>, 1, 5, <<>>, <<>>) :
        op \in {"Count", "IncreaseCounter", "SetGauge", "CountLabels"},
        s \in SeqSubsystems, n \in SeqNames}

\* one goroutine, one call after the other
NextSeq ==
    \/ \E r \in SeqRequests : Begin(1, r)
    \/ Lookup(1)
    \/ Lock(1)
    \/ CountCreate(1)
    \/ IncreaseCounterCreate(1)
    \/ SetGaugeCreate(1)
    \/ CountLabelsCreate(1)
    \/ Unlock(1)
    \/ CountInc(1)
    \/ IncreaseCounterAdd(1)
    \/ SetGaugeSet(1)
    \/ CountLabelsInc(1)

SpecSeq == Init /\ [][NextSeq]_vars

\* ---------------------------------------------------------------- handles
\* a float64 as a decimal m * 10^e with no trailing zero in m
RECURSIVE Norm(_)
Norm(x) ==
    IF x.m = 0 THEN [m |-> 0, e |-> 0]
    ELSE IF x.m % 10 = 0 THEN Norm([m |-> x.m \div 10, e |-> x.e + 1])
    ELSE x
\* float64(d) of a time.Duration d, a number of nanoseconds
Float64(d) == Norm([m |-> d, e |-> 0])
\* d.Seconds()
Seconds(d) == Norm([m |-> d, e |-> 0 - 9])
\* elapsed * 1000.0
Times1000(x) == Norm([m |-> x.m, e |-> x.e + 3])
\* Go's d % m: the remainder has the sign of d
Rem(d, m) == IF d >= 0 THEN d % m ELSE 0 - ((0 - d) % m)
\* d.Truncate(m): d rounded toward zero to a multiple of m; d itself if m <= 0
Truncate(d, m) == IF m <= 0 THEN d ELSE d - Rem(d, m)

\* time.Since(start) in nanoseconds (the tests start in the future), the units
\* time.Millisecond and time.Microsecond, and the values 0.25 and 25 observed
Durations == {1500000, 0 - 999999500}
Units == {1000000, 1000}
ObserveValues == {[m |-> 25, e |-> 0 - 2], [m |-> 25, e |-> 0]}

MetricsHistograms == {h \in handles : "hist" \in DOMAIN h}

\* a goroutine (the lowest free one) calls a recording method of a handle it
\* holds; the method takes no lock and runs to its end, or panics on a nil
\* instrument before it has observed anything
Record(t, method, key, panics, newVal) ==
    /\ pc[t] = "idle"
    /\ \A u \in Threads : u < t => pc[u] # "idle"
    /\ ncalls < MaxCalls
    /\ ncalls' = ncalls + 1
    /\ issued' = Bump(issued, <<"Histograms", key, <<method>>>>, 1)
    /\ IF panics
       THEN /\ SetPc(t, "panicked")
            /\ UNCHANGED val
       ELSE /\ val' = newVal
            /\ UNCHANGED pc
    /\ UNCHANGED <<pools, mutex, registered, meta, req, loc, handles,
                   regCalls, warnings, passed, other, old>>

\* a RecordTimeElapsed that observes the seconds into the summary as well
RecordTimeElapsedInSeconds(t, h, since) ==
    Record(t, "RecordTimeElapsed", h.Key, h.hist = Nil \/ h.sum = Nil,
           [val EXCEPT ![h.hist] = Append(@, Seconds(since)),
                       ![h.sum] = Append(@, Seconds(since))])

\* elapsed := float64(time.Since(start).Seconds())
\* histogram.hist.Observe(elapsed); histogram.sum.Observe(elapsed * 1000.0)
RecordTimeElapsed(t, h, since) ==
    Record(t, "RecordTimeElapsed", h.Key, h.hist = Nil \/ h.sum = Nil,
           [val EXCEPT ![h.hist] = Append(@, Seconds(since)),
                       ![h.sum] = Append(@, Times1000(Seconds(since)))])

\* since := time.Since(start)
\* histogram.hist.Observe(float64(since.Truncate(unit)))
\* histogram.sum.Observe(float64(since.Seconds()) * 1000.0)
RecordDuration(t, h, since, unit) ==
    Record(t, "RecordDuration", h.Key, h.hist = Nil \/ h.sum = Nil,
           [val EXCEPT ![h.hist] = Append(@, Float64(Truncate(since, unit))),
                       ![h.sum] = Append(@, Times1000(Seconds(since)))])

\* histogram.hist.Observe(value)
Observe(t, h, value) ==
    Record(t, "Observe", h.Key, h.hist = Nil,
           [val EXCEPT ![h.hist] = Append(@, value)])

\* goroutines call AddHistogram and record through the handles it returned
NextRec ==
    \E t \in Threads :
        \/ \E r \in AddHistogramRequests : Begin(t, r)
        \/ addHistogramLookup(t)
        \/ Lock(t)
        \/ addHistogramCreateSummary(t)
        \/ addHistogramCreateHistogram(t)
        \/ Unlock(t)
        \/ addHistogramReturn(t)
        \/ \E h \in MetricsHistograms : \E d \in Durations : RecordTimeElapsed(t, h, d)
        \/ \E h \in MetricsHistograms : \E d \in Durations : \E u \in Units :
               RecordDuration(t, h, d, u)
        \/ \E h \in MetricsHistograms : \E v \in ObserveValues : Observe(t, h, v)

SpecRec == Init /\ [][NextRec]_vars

\* ---------------------------------------------------------------- label values
HistogramVecs == {h \in handles : "histVec" \in DOMAIN h}

\* vec.histVec.WithLabelValues(vec.LabelValues...).Observe(value), called by a
\* goroutine (the lowest free one) on a handle it holds: WithLabelValues panics
\* when the handle's values are not as many as the label names of the vector
VecObserve(t, h) ==
    /\ pc[t] = "idle"
    /\ \A u \in Threads : u < t => pc[u] # "idle"
    /\ ncalls < MaxCalls
    /\ ncalls' = ncalls + 1
    /\ issued' = Bump(issued, <<"HistogramVecs", h.Key, h.LabelValues>>, 1)
    /\ IF h.histVec = Nil \/ Len(h.LabelValues) # Len(meta[h.histVec].labels)
       THEN /\ SetPc(t, "panicked")
            /\ UNCHANGED val
       ELSE /\ val' = [val EXCEPT ![h.histVec] = Bump(@, h.LabelValues, 1)]
            /\ UNCHANGED pc
    /\ UNCHANGED <<pools, mutex, registered, meta, req, loc, handles,
                   regCalls, warnings, passed, other, old>>

\* CountLabels and AddHistogramVec calls whose values may be more or fewer
\* than the label names
LabelNames == {<<"l1">>, <<"l1", "l2">>}
LabelTuples == {<<"v1">>, <<"v1", "v2">>}
LabelRequests ==
    {Request("CountLabels", s, n, "h1", l, v, 1, 0, <<>>, <<>>) :
        s \in Subsystems, n \in Names, l \in LabelNames, v \in LabelTuples}
    \cup {Request("AddHistogramVec", s, n, "h1", l, v, 0, 0, DefBuckets, <<>>) :
        s \in Subsystems, n \in Names, l \in LabelNames, v \in LabelTuples}

NextLabels ==
    \E t \in Threads :
        \/ \E r \in LabelRequests : Begin(t, r)
        \/ Lookup(t)
        \/ Lock(t)
        \/ CountLabelsCreate(t)
        \/ addHistogramVecCreate(t)
        \/ Unlock(t)
        \/ CountLabelsInc(t)
        \/ addHistogramVecReturn(t)
        \/ \E h \in HistogramVecs : VecObserve(t, h)

SpecLabels == Init /\ [][NextLabels]_vars

\* ---------------------------------------------------------------- recording
SummaryVecs == {h \in handles : "summaryVec" \in DOMAIN h}

\* (vec *SummaryVec) RecordTimeElapsed:
\* vec.summaryVec.WithLabelValues(vec.LabelValues...).Observe(elapsed * 1000.0),
\* called by a goroutine (the lowest free one) on a handle it holds
SummaryVecRecordTimeElapsed(t, h) ==
    /\ pc[t] = "idle"
    /\ \A u \in Threads : u < t => pc[u] # "idle"
    /\ ncalls < MaxCalls
    /\ ncalls' = ncalls + 1
    /\ issued' = Bump(issued, <<"SummaryVecs", h.Key, h.LabelValues>>, 1)
    /\ IF h.summaryVec = Nil \/ Len(h.LabelValues) # Len(meta[h.summaryVec].labels)
       THEN /\ SetPc(t, "panicked")
            /\ UNCHANGED val
       ELSE /\ val' = [val EXCEPT ![h.summaryVec] = Bump(@, h.LabelValues, 1)]
            /\ UNCHANGED pc
    /\ UNCHANGED <<pools, mutex, registered, meta, req, loc, handles,
                   regCalls, warnings, passed, other, old>>

\* one call of each operation of the registry
RecordingRequests ==
    {r \in Requests :
        /\ r.op = "SetGauge" => r.value = 5
        /\ r.op = "CountLabels" => r.values = <<"v1">>
        /\ r.op = "AddHistogramVec" => r.labels = <<"l1">>}

\* goroutines call the operations of the registry and record through the
\* handles it returned
NextRecording ==
    \E t \in Threads :
        \/ \E r \in RecordingRequests : Begin(t, r)
        \/ Lookup(t)
        \/ addHistogramLookup(t)
        \/ Lock(t)
        \/ CountCreate(t)
        \/ IncreaseCounterCreate(t)
        \/ SetGaugeCreate(t)
        \/ CountLabelsCreate(t)
        \/ addHistogramCreateSummary(t)
        \/ addHistogramCreateHistogram(t)
        \/ addHistogramVecCreate(t)
        \/ addSummaryVecCreate(t)
        \/ Unlock(t)
        \/ CountInc(t)
        \/ IncreaseCounterAdd(t)
        \/ SetGaugeSet(t)
        \/ CountLabelsInc(t)
        \/ addHistogramReturn(t)
        \/ addHistogramVecReturn(t)
        \/ addSummaryVecReturn(t)
        \/ \E h \in MetricsHistograms : \E d \in Durations : RecordTimeElapsed(t, h, d)
        \/ \E h \in MetricsHistograms : \E d \in Durations : \E u \in Units :
               RecordDuration(t, h, d, u)
        \/ \E h \in MetricsHistograms : \E v \in ObserveValues : Observe(t, h, v)
        \/ \E h \in HistogramVecs : VecObserve(t, h)
        \/ \E h \in SummaryVecs : SummaryVecRecordTimeElapsed(t, h)

SpecRecording == Init /\ [][NextRecording]_vars

\* ---------------------------------------------------------------- earlier version
\* the Count calls given to both versions: a name the backend accepts and one
\* it rejects
OldRequests ==
    {Request("Count", s, n, "h1", <<>>, <<>>, 1, 0, <<>>, <<>>) :
        s \in Subsystems, n \in SeqNames}

\* prometheus.Register in the run of the earlier version
OldRegisterOk(fq) == IsValidMetricName(fq) /\ fq \notin old.registered

OldKeyOf(t) == Key(old.req[t].subsystem, old.req[t].name)
OldFQName(t) == BuildFQName(Namespace, old.req[t].subsystem, old.req[t].name)
NewVars == <<pools, mutex, registered, meta, val, pc, req, loc, handles,
             regCalls, warnings, issued, passed, ncalls, other>>

\* a goroutine (the lowest free one) calls the earlier Count with arguments r,
\* a call that was also made to the current version, and takes the mutex:
\* ctx.countMutex.Lock() waits while another goroutine holds it
OldCount(t, r) ==
    /\ old.pc[t] = "idle"
    /\ \A u \in Threads : u < t => old.pc[u] # "idle"
    /\ LET k == Key(r.subsystem, r.name)
       IN (IF k \in DOMAIN old.issued THEN old.issued[k] ELSE 0)
              < (IF <<"Counters", k, <<>>>> \in DOMAIN issued
                 THEN issued[<<"Counters", k, <<>>>>] ELSE 0)
    /\ old.countMutex = 0
    /\ old' = [old EXCEPT !.countMutex = t,
                          !.pc[t] = "lookup",
                          !.req[t] = r,
                          !.issued = Bump(@, Key(r.subsystem, r.name), 1)]
    /\ UNCHANGED NewVars

\* counter, exists := ctx.Counters[key]; if !exists : NewCounter, insert,
\* Register, Warn on an error
OldCountCreate(t) ==
    /\ old.pc[t] = "lookup"
    /\ IF Has(old.Counters, OldKeyOf(t))
       THEN old' = [old EXCEPT !.pc[t] = "inc"]
       ELSE old' = [old EXCEPT
                       !.pc[t] = "inc",
                       !.Counters = Put(@, OldKeyOf(t), 0),
                       !.regCalls = Bump(@, OldKeyOf(t), 1),
                       !.registered = IF OldRegisterOk(OldFQName(t))
                                      THEN @ \cup {OldFQName(t)} ELSE @,
                       !.warnings = IF OldRegisterOk(OldFQName(t))
                                    THEN @ ELSE Bump(@, OldKeyOf(t), 1)]
    /\ UNCHANGED NewVars

\* counter.Inc(), with the mutex held
OldCountInc(t) ==
    /\ old.pc[t] = "inc"
    /\ old' = [old EXCEPT !.pc[t] = "unlock",
                          !.Counters = Bump(@, OldKeyOf(t), 1)]
    /\ UNCHANGED NewVars

\* defer ctx.countMutex.Unlock(), run at the return
OldCountUnlock(t) ==
    /\ old.pc[t] = "unlock"
    /\ old.countMutex = t
    /\ old' = [old EXCEPT !.pc[t] = "idle",
                          !.req[t] = NoRequest,
                          !.countMutex = 0]
    /\ UNCHANGED NewVars

\* goroutines make Count calls on the current version, and the same calls are
\* made, in any order of their statements, on the earlier version
NextOld ==
    \E t \in Threads :
        \/ \E r \in OldRequests : Begin(t, r)
        \/ Lookup(t)
        \/ Lock(t)
        \/ CountCreate(t)
        \/ Unlock(t)
        \/ CountInc(t)
        \/ \E r \in OldRequests : OldCount(t, r)
        \/ OldCountCreate(t)
        \/ OldCountInc(t)
        \/ OldCountUnlock(t)

SpecOld == Init /\ [][NextOld]_vars

\* ---------------------------------------------------------------- two registries
\* the namespaces of the second registry: the one of the first, and another
OtherNamespaces == {Namespace, "ns2"}

\* NewMetrics(namespace, logger), called a second time in the process
NewMetricsOther(namespace) ==
    /\ other = Nil
    /\ other' = [namespace |-> namespace, Counters |-> EmptyMap, warnings |-> 0]
    /\ UNCHANGED <<pools, mutex, registered, meta, val, pc, req, loc, handles,
                   regCalls, warnings, issued, passed, ncalls, old>>

\* Count(subsystem, name, help) on the second registry, run from its first to
\* its last statement by a goroutine that is that registry's only user: look
\* the key up; if absent NewCounter, insert, Register with the process-wide
\* prometheus.DefaultRegisterer, Warn on an error; Inc
OtherCount(subsystem, name) ==
    /\ other # Nil
    /\ ncalls < MaxCalls
    /\ LET key == Key(subsystem, name)
           fq == BuildFQName(other.namespace, subsystem, name)
           exists == Has(other.Counters, key)
       IN /\ other' = [other EXCEPT !.Counters = Bump(@, key, 1),
                                    !.warnings = IF ~exists /\ ~RegisterOk(fq) THEN @ + 1 ELSE @]
          /\ registered' = IF ~exists /\ RegisterOk(fq) THEN registered \cup {fq} ELSE registered
    /\ ncalls' = ncalls + 1
    /\ UNCHANGED <<pools, mutex, meta, val, pc, req, loc, handles,
                   regCalls, warnings, issued, passed, old>>

TwoRequests == CountRequests \cup AddHistogramRequests

\* one goroutine calls Count and AddHistogram on the first registry, one call
\* after the other, while the second registry is created and used
NextTwo ==
    \/ \E r \in TwoRequests : Begin(1, r)
    \/ Lookup(1)
    \/ addHistogramLookup(1)
    \/ Lock(1)
    \/ CountCreate(1)
    \/ addHistogramCreateSummary(1)
    \/ addHistogramCreateHistogram(1)
    \/ Unlock(1)
    \/ CountInc(1)
    \/ addHistogramReturn(1)
    \/ \E ns \in OtherNamespaces : NewMetricsOther(ns)
    \/ \E s \in Subsystems, n \in Names : OtherCount(s, n)

SpecTwo == Init /\ [][NextTwo]_vars

\* ---------------------------------------------------------------- keys
\* subsystems and names that may be empty or hold the separator of the key
KeySubsystems == {"", "a", "a/b"}
KeyNames == {"x", "ax", "b/x"}
KeyRequests ==
    {Request(op, s, n, "h1", <<>>, <<>>, 1, 5, <<>>, <<>>) :
        op \in {"Count", "SetGauge"}, s \in KeySubsystems, n \in KeyNames}

\* one goroutine calls Count and SetGauge, one call after the other
NextKeys ==
    \/ \E r \in KeyRequests : Begin(1, r)
    \/ Lookup(1)
    \/ Lock(1)
    \/ CountCreate(1)
    \/ SetGaugeCreate(1)
    \/ Unlock(1)
    \/ CountInc(1)
    \/ SetGaugeSet(1)

SpecKeys == Init /\ [][NextKeys]_vars

\* ---------------------------------------------------------------- helpers of the properties
Running == {"lookup", "lock", "create", "createHist", "unlock", "record"}
AllKeys == {Key(s, n) : s \in Subsystems \cup SeqSubsystems, n \in Names \cup SeqNames}
Issued(pool, k, v) == IF <<pool, k, v>> \in DOMAIN issued THEN issued[<<pool, k, v>>] ELSE 0
RegCalls(pool, k) == IF <<pool, k>> \in DOMAIN regCalls THEN regCalls[<<pool, k>>] ELSE 0
Warnings(pool, k) == IF <<pool, k>> \in DOMAIN warnings THEN warnings[<<pool, k>>] ELSE 0
\* the calls on (pool, key, label values) that have started and not yet recorded
InFlight(pool, k, v) ==
    {t \in Threads : /\ pc[t] \in Running
                     /\ req[t].op \in {"Count", "IncreaseCounter", "CountLabels"}
                     /\ PoolOf(req[t].op) = pool /\ KeyOf(t) = k /\ req[t].values = v}
RECURSIVE SumIncrements(_)
SumIncrements(S) ==
    IF S = {} THEN 0
    ELSE LET t == CHOOSE x \in S : TRUE
         IN req[t].increment + SumIncrements(S \ {t})
Pending(pool, k, v) == SumIncrements(InFlight(pool, k, v))
CounterValue(k) == IF Has(pools.Counters, k) THEN val[pools.Counters[k]] ELSE 0
Idle == \A t \in Threads : pc[t] = "idle"

\* ---------------------------------------------------------------- C1
\* C1: for every key, however Count and IncreaseCounter calls interleave, at most
\* one counter is constructed and registered for the key, every increment goes to
\* the counter held by the Counters pool (its value plus the increments of the
\* calls still running is the sum of the increments of the calls made), and once
\* no call for the key is running the pool holds the key.
C1_IdempotentCounterCreation ==
    \A k \in AllKeys :
        /\ RegCalls("Counters", k) <= 1
        /\ CounterValue(k) + Pending("Counters", k, <<>>) = Issued("Counters", k, <<>>)
        /\ \A c \in DOMAIN val :
               (c.pool = "Counters" /\ c.key = k /\ Get(pools.Counters, k) # c) => val[c] = 0
        /\ (Issued("Counters", k, <<>>) > 0 /\ InFlight("Counters", k, <<>>) = {})
               => (Has(pools.Counters, k) /\ RegCalls("Counters", k) = 1)

\* two callers missed the key under the read lock; one has created the counter
\* and incremented it, the other has found it on its re-check and is about to
\* unlock and increment the same counter
C1_Witness ==
    \E t \in Threads :
        /\ pc[t] = "unlock"
        /\ req[t].op \in {"Count", "IncreaseCounter"}
        /\ loc[t].exists
        /\ loc[t].inst = pools.Counters[KeyOf(t)]
        /\ val[loc[t].inst] > 0

\* ---------------------------------------------------------------- C2
\* C2: at most one backend registration call (Register or MustRegister) is made
\* for each pool and key.
C2_AtMostOneRegistration ==
    \A pk \in DOMAIN regCalls : regCalls[pk] <= 1

\* ---------------------------------------------------------------- C3
\* C3: every handle returned by AddHistogram has a non-nil histogram and a
\* non-nil summary, the instruments the Histograms and Summaries pools hold
\* under the handle's key.
C3_HandleHoldsPooledPair ==
    \A h \in handles :
        "hist" \in DOMAIN h =>
            /\ h.hist # Nil
            /\ h.sum # Nil
            /\ h.hist = Get(pools.Histograms, h.Key)
            /\ h.sum = Get(pools.Summaries, h.Key)

\* ---------------------------------------------------------------- C4
\* a goroutine holds the write lock of a mutex until it unlocks it; a goroutine
\* that panicked is gone, though the mutex it locked stays locked
HoldsWriteLock(t, m) == mutex[m].w = t /\ pc[t] # "panicked"

\* C4: whenever no goroutine holds the write lock of histMutex, a key is in the
\* Summaries pool exactly if it is in the Histograms pool.
C4_PairAtomicity ==
    (\A t \in Threads : ~HoldsWriteLock(t, "histMutex"))
        => DOMAIN pools.Summaries = DOMAIN pools.Histograms

\* ---------------------------------------------------------------- C5
PairsPassed(pool) == {<<x[2], x[3]>> : x \in {y \in passed : y[1] = pool}}
KeysPassed(pool) == {Key(x[1], x[2]) : x \in PairsPassed(pool)}
ScalarPools == {"Counters", "Gauges", "CounterVecs"}

\* C5 as stated: after a sequential series of Count, IncreaseCounter, SetGauge
\* and CountLabels calls, each of the Counters, Gauges and CounterVecs pools
\* holds as many entries as distinct (subsystem, name) pairs were passed to it.
C5_PoolSizeIsPairCount ==
    Idle => \A pool \in ScalarPools :
                Cardinality(DOMAIN pools[pool]) = Cardinality(PairsPassed(pool))

\* C5 as amended: each pool holds one entry for each distinct joined key
\* subsystem/name passed to it (a repeated key adds none), and pairs that
\* differ in only the subsystem or only the name have distinct entries.
C5_PoolSizeIsKeyCount ==
    Idle => \A pool \in ScalarPools :
                /\ DOMAIN pools[pool] = KeysPassed(pool)
                /\ Cardinality(DOMAIN pools[pool]) = Cardinality(KeysPassed(pool))
                /\ \A x \in PairsPassed(pool) : \A y \in PairsPassed(pool) :
                       (x # y /\ (x[1] = y[1] \/ x[2] = y[2]))
                           => /\ Key(x[1], x[2]) # Key(y[1], y[2])
                              /\ pools[pool][Key(x[1], x[2])] # pools[pool][Key(y[1], y[2])]

\* three calls were made, one of them with a pair already seen, and the
\* Counters pool holds two entries
C5_Witness ==
    /\ Idle
    /\ ncalls = 3
    /\ Cardinality(PairsPassed("Counters")) = 2
    /\ Cardinality(DOMAIN pools.Counters) = 2
    /\ PairsPassed("Gauges") = {} /\ PairsPassed("CounterVecs") = {}
    /\ \E x \in PairsPassed("Counters") : \E y \in PairsPassed("Counters") :
           x[1] # y[1] /\ x[2] = y[2]

\* ---------------------------------------------------------------- C6
ScalarOps == {"Count", "IncreaseCounter", "SetGauge"}

\* C6: when Register failed for the first Count, IncreaseCounter or SetGauge of
\* a key (one warning was logged), the call did not abort, the instrument it
\* constructed is in the pool, the write lock is released before the
\* increment, the increments go to that instrument, and no later call
\* constructs or registers another.
C6_FailOpenScalar ==
    \A pool \in {"Counters", "Gauges"} : \A k \in AllKeys :
        Warnings(pool, k) > 0 =>
            /\ Has(pools[pool], k)
            /\ pools[pool][k] \in DOMAIN val
            /\ pools[pool][k].n = 1
            /\ RegCalls(pool, k) = 1
            /\ Warnings(pool, k) = 1
            /\ \A t \in Threads :
                   (req[t].op \in ScalarOps /\ PoolOf(req[t].op) = pool /\ KeyOf(t) = k) =>
                       /\ pc[t] # "panicked"
                       /\ pc[t] \in {"unlock", "record"} => loc[t].inst = pools[pool][k]
                       /\ pc[t] = "record" => mutex[MutexOf(req[t].op)].w # t
            /\ pool = "Counters" =>
                   CounterValue(k) + Pending("Counters", k, <<>>) = Issued("Counters", k, <<>>)

\* the registration of a counter failed, and a later call has incremented the
\* same counter again
C6_Witness ==
    /\ Idle
    /\ \E k \in AllKeys :
           /\ Warnings("Counters", k) = 1
           /\ CounterValue(k) = 3

\* ---------------------------------------------------------------- C7
\* C7: a key a pool holds stays in the pool, mapped to the same instrument.
C7_PoolsNeverShrink ==
    [][\A p \in PoolNames : \A k \in DOMAIN pools[p] :
           k \in DOMAIN pools'[p] /\ pools'[p][k] = pools[p][k]]_vars

\* two callers of AddHistogramVec or AddSummaryVec missed the key, the second
\* one's registration was made and the pool still holds the key
C7_Witness ==
    \E p \in {"HistogramVecs", "SummaryVecs"} : \E k \in AllKeys :
        RegCalls(p, k) = 2 /\ Has(pools[p], k) /\ pools[p][k].n = 1

\* ---------------------------------------------------------------- C8
\* C8: when Count(s, n) and AddHistogram(s, n) are the calls made on the
\* registry, neither aborts, neither has its registration rejected, and once
\* both have returned each pool holds the key.
C8_PoolIsolation ==
    \A s \in Subsystems : \A n \in Names :
        passed = {<<"Counters", s, n>>, <<"Summaries", s, n>>} =>
            /\ \A t \in Threads : pc[t] # "panicked"
            /\ Warnings("Counters", Key(s, n)) = 0
            /\ Idle => /\ Has(pools.Counters, Key(s, n))
                       /\ Has(pools.Histograms, Key(s, n))
                       /\ Has(pools.Summaries, Key(s, n))

VecCount(k, v) ==
    IF Has(pools.CounterVecs, k)
    THEN (IF v \in DOMAIN val[pools.CounterVecs[k]] THEN val[pools.CounterVecs[k]][v] ELSE 0)
    ELSE 0

\* C10: at most one counter vector is constructed for a key, and for every tuple
\* of label values (one value for each label name of the vector) its count in
\* the vector of the CounterVecs pool, plus the calls with that tuple still
\* running, is the number of CountLabels calls made with that tuple.
C10_VectorBinding ==
    \A k \in AllKeys :
        /\ RegCalls("CounterVecs", k) <= 1
        /\ \A v \in LabelValues :
               (Has(pools.CounterVecs, k) => Len(v) = Len(meta[pools.CounterVecs[k]].labels))
                   => VecCount(k, v) + Pending("CounterVecs", k, v) = Issued("CounterVecs", k, v)

\* three CountLabels calls for one key, two with one tuple and one with another
C10_Witness ==
    /\ Idle
    /\ \E k \in AllKeys : VecCount(k, <<"v1">>) = 2 /\ VecCount(k, <<"v2">>) = 1

\* ---------------------------------------------------------------- C11
\* C11: every SetGauge call that returns leaves the gauge the Gauges pool holds
\* under its key at the value it passed, whether it created the gauge or found
\* it; a gauge changes only by such a call, to the value of that call; and one
\* gauge at most is constructed and registered for a key, the one in the pool.
C11_SetGaugeSets ==
    [][/\ \A t \in Threads :
              (pc[t] = "record" /\ req[t].op = "SetGauge" /\ pc'[t] # "record")
                  => /\ pc'[t] = "idle"
                     /\ Has(pools'.Gauges, KeyOf(t))
                     /\ val'[pools'.Gauges[KeyOf(t)]] = req[t].value
       /\ \A g \in DOMAIN val' :
              g.pool = "Gauges" =>
                  /\ g.n = 1
                  /\ Get(pools'.Gauges, g.key) = g
                  /\ (g \in DOMAIN val /\ val'[g] # val[g])
                         => \E t \in Threads : /\ pc[t] = "record"
                                              /\ req[t].op = "SetGauge"
                                              /\ KeyOf(t) = g.key
                                              /\ val'[g] = req[t].value]_vars

\* two first SetGauge calls for a key raced: one created the gauge and set it,
\* the other found it on its re-check and is about to set another value
C11_Witness ==
    \E t \in Threads :
        /\ pc[t] = "unlock"
        /\ req[t].op = "SetGauge"
        /\ loc[t].exists
        /\ val[loc[t].inst] # 0
        /\ val[loc[t].inst] # req[t].value

\* ---------------------------------------------------------------- C12
RegisterOps == {"Count", "IncreaseCounter", "SetGauge", "CountLabels"}
MustRegisterOps == {"AddHistogram", "AddHistogramVec", "AddSummaryVec"}
\* goroutine t makes a registration call in this step and the backend rejects it
RegistrationFails(t) ==
    /\ pc[t] \in {"create", "createHist"}
    /\ pc'[t] # pc[t]
    /\ regCalls' # regCalls
    /\ registered' = registered

C13_CallsComplete ==
    \A t \in Threads : (pc[t] \in Running) ~> (pc[t] \in {"idle", "panicked"})

\* ---------------------------------------------------------------- C14
\* C14: what happens on one registry does not depend on the other. Count
\* calls alone never have a registration rejected on a registry used alone,
\* and neither do calls that all go to one pool, so: the second registry,
\* which makes only Count calls, logs no warning; and while all calls on the
\* first registry went to one pool, it logs no warning and none of its calls
\* aborts.
C14_RegistryIsolation ==
    /\ other # Nil => other.warnings = 0
    /\ (\E p \in {"Counters", "Summaries"} : \A x \in passed : x[1] = p)
           => /\ \A pk \in DOMAIN warnings : warnings[pk] = 0
              /\ \A t \in Threads : pc[t] # "panicked"

\* ---------------------------------------------------------------- C15
Calls(method, k) == Issued("Histograms", k, <<method>>)
Observations(pool, k) == IF Has(pools[pool], k) THEN Len(val[pools[pool][k]]) ELSE 0

\* C15: for every key, the histogram of the pair holds one observation for each
\* RecordTimeElapsed, RecordDuration and Observe call made on a handle of the
\* key, and the summary one for each RecordTimeElapsed and RecordDuration call;
\* so the histogram holds as many observations more as Observe calls were made.
C15_DualWrite ==
    \A k \in AllKeys :
        /\ Observations("Histograms", k) =
               Calls("RecordTimeElapsed", k) + Calls("RecordDuration", k) + Calls("Observe", k)
        /\ Observations("Summaries", k) =
               Calls("RecordTimeElapsed", k) + Calls("RecordDuration", k)
        /\ Observations("Histograms", k) - Observations("Summaries", k) = Calls("Observe", k)

\* ---------------------------------------------------------------- C16
RECURSIVE Pow10(_)
Pow10(n) == IF n <= 0 THEN 1 ELSE 10 * Pow10(n - 1)
\* x * 10^p as an integer (p large enough for x to have no fraction left)
Scaled(x, p) == x.m * Pow10(x.e + p)
Last(q) == q[Len(q)]

\* C16: a RecordTimeElapsed call that observes adds to the histogram the
\* elapsed time d in seconds and to the summary the same d in milliseconds,
\* 1000 times the value of the histogram, for one d read from the clock.
C16_DualUnit ==
    [][\A k \in AllKeys :
         (Calls("RecordTimeElapsed", k)' # Calls("RecordTimeElapsed", k) /\ val' # val)
             => LET hist == pools.Histograms[k]
                    sum == pools.Summaries[k]
                IN /\ Len(val'[hist]) = Len(val[hist]) + 1
                   /\ Len(val'[sum]) = Len(val[sum]) + 1
                   /\ Last(val'[hist]).e >= 0 - 9
                   /\ Last(val'[sum]).e >= 0 - 6
                   /\ \E d \in Durations :
                          /\ Scaled(Last(val'[hist]), 9) = d
                          /\ Scaled(Last(val'[sum]), 6) = d
                   /\ Last(val'[sum]).m = Last(val'[hist]).m
                   /\ Last(val'[sum]).e = Last(val'[hist]).e + 3]_vars

\* RecordTimeElapsed has observed 1.5 ms: 0.0015 in the histogram and 1.5 in
\* the summary
C16_Witness ==
    \E k \in AllKeys :
        /\ Calls("RecordTimeElapsed", k) = 1
        /\ Observations("Histograms", k) = 1
        /\ Observations("Summaries", k) = 1
        /\ val[pools.Histograms[k]][1] = [m |-> 15, e |-> 0 - 4]
        /\ val[pools.Summaries[k]][1] = [m |-> 15, e |-> 0 - 1]

\* ---------------------------------------------------------------- C17
HoldsNoLock(t) == \A m \in MutexNames : mutex[m].w # t /\ t \notin mutex[m].r
\* the step changes no pool, no lock and no instrument
NothingRecorded == pools' = pools /\ mutex' = mutex /\ val' = val /\ meta' = meta
HistVecCount(k, v) ==
    IF Has(pools.HistogramVecs, k)
    THEN (IF v \in DOMAIN val[pools.HistogramVecs[k]] THEN val[pools.HistogramVecs[k]][v] ELSE 0)
    ELSE 0

\* C17: a CountLabels call, and an Observe on a HistogramVec handle, whose
\* values are not as many as the label names of the vector the pool holds
\* under the key panics, holding no lock, and changes no pool, lock or count;
\* one whose values are as many returns and adds one to the count of its
\* values, whatever aborted before.
C17_LabelMisuseFailsFast ==
    [][/\ \A t \in Threads :
              (pc[t] = "record" /\ req[t].op = "CountLabels" /\ pc'[t] # "record")
                  => /\ Has(pools.CounterVecs, KeyOf(t))
                     /\ loc[t].inst = pools.CounterVecs[KeyOf(t)]
                     /\ IF Len(req[t].values) # Len(meta[loc[t].inst].labels)
                        THEN pc'[t] = "panicked" /\ HoldsNoLock(t) /\ NothingRecorded
                        ELSE /\ pc'[t] = "idle"
                             /\ \A k \in AllKeys : \A v \in LabelTuples :
                                    (k = KeyOf(t) /\ v = req[t].values)
                                        => VecCount(k, v)' = VecCount(k, v) + 1
       /\ \A k \in AllKeys : \A v \in LabelTuples :
              Issued("HistogramVecs", k, v)' # Issued("HistogramVecs", k, v)
                  => /\ Has(pools.HistogramVecs, k)
                     /\ IF Len(v) # Len(meta[pools.HistogramVecs[k]].labels)
                        THEN /\ NothingRecorded
                             /\ \E t \in Threads : /\ pc[t] = "idle"
                                                  /\ pc'[t] = "panicked"
                                                  /\ HoldsNoLock(t)
                        ELSE /\ pc' = pc
                             /\ HistVecCount(k, v)' = HistVecCount(k, v) + 1]_vars

\* a CountLabels call with one value for a vector of two label names has
\* panicked, and two calls with two values have counted
C17_Witness ==
    /\ pc[1] = "panicked"
    /\ req[1].op = "CountLabels"
    /\ req[1].values = <<"v1">>
    /\ HoldsNoLock(1)
    /\ pc[2] = "idle"
    /\ \E k \in AllKeys : VecCount(k, <<"v1", "v2">>) = 2

\* ---------------------------------------------------------------- C18
LocksHeld(t) == {m \in MutexNames : mutex[m].w = t \/ t \in mutex[m].r}
\* operations on the same instrument kind: the same operation, or Count and
\* IncreaseCounter
SameKind(a, b) == a = b \/ {a, b} = {"Count", "IncreaseCounter"}
\* every goroutine that holds a lock is in an operation of another kind than op
OnlyOtherKindsHoldLocks(t, op) ==
    \A u \in Threads \ {t} : LocksHeld(u) = {} \/ ~SameKind(req[u].op, op)

\* C18: no goroutine holds two pool locks, none holds a lock while it waits
\* for one, and a goroutine waiting for the write lock, or a call about to
\* take the read lock, finds the lock free whenever the goroutines that hold
\* locks are all in operations of another kind.
C18_LockIndependence ==
    /\ \A t \in Threads : Cardinality(LocksHeld(t)) <= 1
    /\ \A t \in Threads : pc[t] = "lock" => LocksHeld(t) = {}
    /\ \A t \in Threads :
           (pc[t] = "lock" /\ OnlyOtherKindsHoldLocks(t, req[t].op))
               => mutex[MutexOf(req[t].op)].w = 0 /\ mutex[MutexOf(req[t].op)].r = {}
    /\ \A t \in Threads : \A r \in Requests :
           (pc[t] = "idle" /\ OnlyOtherKindsHoldLocks(t, r.op))
               => mutex[MutexOf(r.op)].w = 0

\* a call of one kind aborted with its pool's write lock held, and a call of
\* another kind is inside its own write-locked section
C18_Witness ==
    \E t \in Threads : \E u \in Threads :
        /\ pc[t] = "panicked"
        /\ mutex[MutexOf(req[t].op)].w = t
        /\ pc[u] = "create"
        /\ mutex[MutexOf(req[u].op)].w = u
        /\ ~SameKind(req[t].op, req[u].op)

\* ---------------------------------------------------------------- C19
\* the pool of goroutine t's call holds the key of the call
KeyPresent(t) == Has(pools[PoolOf(req[t].op)], KeyOf(t))

\* C19: a call that starts takes the read lock of its pool and no write lock;
\* a key that is in the pool when a call for it has started is still there
\* when the call looks it up; a call that finds its key in the lookup gives
\* the read lock back and goes on to record or return; a call goes for the
\* write lock only from a lookup that missed and takes it only there; and a
\* call that found its key in the lookup constructs and registers nothing and
\* changes no pool.
C19_FastPath ==
    [][\A t \in Threads :
         /\ (pc[t] = "idle" /\ pc'[t] = "lookup")
                => /\ t \in mutex'[MutexOf(req'[t].op)].r
                   /\ \A m \in MutexNames : mutex'[m].w = mutex[m].w
         /\ (pc[t] = "lookup" /\ KeyPresent(t))
                => /\ pc'[t] \in {"lookup", "record"}
                   /\ Has(pools'[PoolOf(req[t].op)], KeyOf(t))
                   /\ pc'[t] = "record"
                         => /\ loc'[t].exists
                            /\ loc'[t].inst = pools[PoolOf(req[t].op)][KeyOf(t)]
                            /\ \A m \in MutexNames : mutex'[m].w # t /\ t \notin mutex'[m].r
                            /\ pools' = pools /\ regCalls' = regCalls
                            /\ meta' = meta /\ registered' = registered
         /\ (pc'[t] = "lock" /\ pc[t] # "lock")
                => (pc[t] = "lookup" /\ ~KeyPresent(t))
         /\ (\E m \in MutexNames : mutex'[m].w = t /\ mutex[m].w # t)
                => (pc[t] = "lock" /\ ~loc[t].exists)
         /\ (pc[t] = "record" /\ pc'[t] # "record")
                => /\ pools' = pools /\ regCalls' = regCalls
                   /\ meta' = meta /\ registered' = registered /\ mutex' = mutex]_vars

\* two calls for a key the pool holds are between RLock and RUnlock at once
C19_Witness ==
    \E t \in Threads : \E u \in Threads :
        /\ t # u
        /\ pc[t] = "lookup" /\ pc[u] = "lookup"
        /\ KeyPresent(t) /\ KeyPresent(u)
        /\ MutexOf(req[t].op) = MutexOf(req[u].op)
        /\ {t, u} \subseteq mutex[MutexOf(req[t].op)].r

\* ---------------------------------------------------------------- C20
\* the mutex that is to guard a pool map
GuardOf(pool) ==
    CASE pool = "Counters" -> "countMutex"
      [] pool = "CounterVecs" -> "countVecMutex"
      [] pool = "Summaries" -> "histMutex"
      [] pool = "Histograms" -> "histMutex"
      [] pool = "HistogramVecs" -> "histVecMutex"
      [] pool = "SummaryVecs" -> "summaryVecMutex"
      [] pool = "Gauges" -> "gaugeMutex"
\* the pool maps the lookup of an operation reads
ReadPools(op) == {PoolOf(op)} \cup (IF op = "AddHistogram" THEN {"Histograms"} ELSE {})
\* goroutine t executes a statement of its write-locked section in this step
ActsInWriteSection(t) ==
    /\ pc[t] \in {"create", "createHist"}
    /\ pc'[t] # pc[t]
    /\ mutex[MutexOf(req[t].op)].w = t

\* C20: a mutex that has a writer has no reader, before and after every step;
\* a goroutine about to look its key up holds the read lock of the mutex that
\* guards the maps it reads, and one about to re-check, construct, register
\* or insert holds the write lock of that mutex; a pool map changes only in a
\* step of the goroutine that holds the write lock of the map's mutex, inside
\* its write-locked section; and an instrument is constructed or registered
\* only in such a step.
C20_NoDataRace ==
    [][/\ \A m \in MutexNames :
              /\ mutex[m].w # 0 => mutex[m].r = {}
              /\ mutex'[m].w # 0 => mutex'[m].r = {}
       /\ \A t \in Threads :
              /\ pc[t] = "lookup"
                    => /\ t \in mutex[MutexOf(req[t].op)].r
                       /\ \A p \in ReadPools(req[t].op) : GuardOf(p) = MutexOf(req[t].op)
              /\ pc[t] \in {"create", "createHist", "unlock"}
                    => /\ mutex[MutexOf(req[t].op)].w = t
                       /\ \A p \in ReadPools(req[t].op) : GuardOf(p) = MutexOf(req[t].op)
       /\ \A p \in PoolNames :
              pools'[p] # pools[p]
                  => \E t \in Threads : ActsInWriteSection(t) /\ mutex[GuardOf(p)].w = t
       /\ (regCalls' # regCalls \/ meta' # meta \/ registered' # registered)
              => \E t \in Threads : ActsInWriteSection(t)]_vars

\* one goroutine is inside the write-locked section of a pool while another
\* waits for the write lock of the same pool
C20_Witness ==
    \E t \in Threads : \E u \in Threads :
        /\ pc[t] = "create"
        /\ mutex[MutexOf(req[t].op)].w = t
        /\ pc[u] = "lock"
        /\ MutexOf(req[u].op) = MutexOf(req[t].op)

\* ---------------------------------------------------------------- C21
\* C21: a call that has ended, by returning or by aborting, holds no pool
\* lock; so when no call is in progress every pool lock is free.
C21_LockRelease ==
    /\ \A t \in Threads : pc[t] \in {"idle", "panicked"} => LocksHeld(t) = {}
    /\ (\A t \in Threads : pc[t] \notin Running)
           => \A m \in MutexNames : mutex[m].w = 0 /\ mutex[m].r = {}

\* ---------------------------------------------------------------- C22
HasSep(str) == \E i \in 1..Len(str) : SubSeq(str, i, i) = Sep
\* the pool holds different instruments for the pairs x and y
DistinctEntries(pool, x, y) ==
    /\ Has(pools[pool], Key(x[1], x[2]))
    /\ Has(pools[pool], Key(y[1], y[2]))
    /\ pools[pool][Key(x[1], x[2])] # pools[pool][Key(y[1], y[2])]

TruncDiv(d, u) == IF d >= 0 THEN d \div u ELSE 0 - ((0 - d) \div u)

\* C23: a RecordDuration call that observes adds to the histogram the whole
\* number of units in the elapsed time d, and to the summary d in
\* milliseconds, for one d read from the clock and the unit passed.
C23_DurationInUnits ==
    [][\A k \in AllKeys :
         (Calls("RecordDuration", k)' # Calls("RecordDuration", k) /\ val' # val)
             => LET hist == pools.Histograms[k]
                    sum == pools.Summaries[k]
                IN /\ Len(val'[hist]) = Len(val[hist]) + 1
                   /\ Len(val'[sum]) = Len(val[sum]) + 1
                   /\ Last(val'[hist]).e >= 0
                   /\ Last(val'[sum]).e >= 0 - 6
                   /\ \E d \in Durations : \E u \in Units :
                          /\ Scaled(Last(val'[hist]), 0) = TruncDiv(d, u)
                          /\ Scaled(Last(val'[sum]), 6) = d]_vars

\* ---------------------------------------------------------------- C24
\* goroutine t makes a Register call for key k of the pool in this step and the
\* backend rejects it
RegisterFailsFor(t, pool, k) ==
    /\ RegistrationFails(t)
    /\ req[t].op \in RegisterOps
    /\ PoolOf(req[t].op) = pool
    /\ KeyOf(t) = k

\* C24: a step of Count, IncreaseCounter, SetGauge or CountLabels logs one
\* warning for its (pool, key) when its Register call fails and no step logs
\* one otherwise, and at every moment a (pool, key) has at most one warning,
\* however many calls were made for the key.
C24_WarningAccounting ==
    /\ [](\A pool \in PoolNames : \A k \in AllKeys :
              /\ Warnings(pool, k) <= 1
              /\ Warnings(pool, k) <= RegCalls(pool, k)
              /\ pool \notin ScalarPools => Warnings(pool, k) = 0)
    /\ [][\A pool \in ScalarPools : \A k \in AllKeys :
             Warnings(pool, k)' =
                 Warnings(pool, k)
                     + (IF \E t \in Threads : RegisterFailsFor(t, pool, k) THEN 1 ELSE 0)]_vars

\* the registration of a counter vector failed with one warning, and two
\* CountLabels calls for the same key have counted and returned since
C24_Witness ==
    /\ Idle
    /\ \E k \in AllKeys :
           /\ Warnings("CounterVecs", k) = 1
           /\ RegCalls("CounterVecs", k) = 1
           /\ VecCount(k, <<"v1">>) = 2

\* ---------------------------------------------------------------- C25
\* the step is a call of a recording method of a handle
HandleRecording == ncalls' # ncalls /\ req' = req
\* a goroutine is free to make a call
CanCall == ncalls < MaxCalls /\ \E t \in Threads : pc[t] = "idle"

\* C25: the last statement of Count, IncreaseCounter, SetGauge and CountLabels
\* runs when its goroutine holds no pool lock, and changes no lock and no
\* pool; the value of an instrument of their pools changes in such a
\* statement only; a recording method of a handle changes no lock and no pool
\* and is never kept waiting by a lock.
C25_RecordOutsideLocks ==
    /\ [][/\ \A t \in Threads :
               (pc[t] = "record" /\ pc'[t] # pc[t] /\ req[t].op \in RegisterOps)
                   => LocksHeld(t) = {} /\ mutex' = mutex /\ pools' = pools
          /\ \A ref \in DOMAIN val :
               (val'[ref] # val[ref] /\ ref.pool \in ScalarPools)
                   => \E t \in Threads : /\ pc[t] = "record"
                                          /\ pc'[t] = "idle"
                                          /\ req[t].op \in RegisterOps
                                          /\ loc[t].inst = ref
                                          /\ LocksHeld(t) = {}
          /\ HandleRecording => mutex' = mutex /\ pools' = pools]_vars
    /\ [](CanCall =>
             /\ \A h \in MetricsHistograms : \A v \in ObserveValues :
                    ENABLED (\E t \in Threads : Observe(t, h, v))
             /\ \A h \in HistogramVecs : ENABLED (\E t \in Threads : VecObserve(t, h))
             /\ \A h \in SummaryVecs :
                    ENABLED (\E t \in Threads : SummaryVecRecordTimeElapsed(t, h)))

\* a Count that took the write lock has counted and a value was observed
\* through a MetricsHistogram handle, and every lock is free
C25_Witness ==
    /\ \A m \in MutexNames : mutex[m].w = 0 /\ mutex[m].r = {}
    /\ \E k \in AllKeys :
           /\ RegCalls("Counters", k) = 1
           /\ CounterValue(k) = 1
           /\ Observations("Histograms", k) = 1

\* ---------------------------------------------------------------- C26
OldIssued(k) == IF k \in DOMAIN old.issued THEN old.issued[k] ELSE 0
OldRegCalls(k) == IF k \in DOMAIN old.regCalls THEN old.regCalls[k] ELSE 0
\* both versions were given the same Count calls and every call has returned
SameCallsDone ==
    /\ Idle
    /\ \A t \in Threads : old.pc[t] = "idle"
    /\ \A k \in AllKeys : OldIssued(k) = Issued("Counters", k, <<>>)

\* C26: when the same Count calls were made to the current and to the earlier
\* version and all have returned, whatever the interleavings, the Counters
\* pools have the same keys, and every key has the same number of Register
\* calls and the same counter value in both.
C26_CountEquivalent ==
    SameCallsDone =>
        /\ DOMAIN pools.Counters = DOMAIN old.Counters
        /\ \A k \in AllKeys :
               /\ RegCalls("Counters", k) = OldRegCalls(k)
               /\ Has(old.Counters, k) => CounterValue(k) = old.Counters[k]

\* three Count calls, two of them for one key, have returned in both versions
C26_Witness ==
    /\ SameCallsDone
    /\ ncalls = MaxCalls
    /\ \E k1, k2 \in AllKeys :
           /\ k1 # k2
           /\ OldIssued(k1) >= 2
           /\ OldIssued(k2) >= 1
           /\ CounterValue(k1) = OldIssued(k1)
           /\ old.Counters[k2] = OldIssued(k2)

====
